---- MODULE Spec2Model ----
(***************************************************************************)
(* The news collector of src/src/fetchers.py (NewsCollector) with the      *)
(* helpers of src/src/utils.py it uses and the cross-source merge of       *)
(* src/main.py, as a state machine.                                        *)
(*                                                                         *)
(* The network, the robots files, the pages and the file system are the    *)
(* environment: what they answer is chosen nondeterministically at the     *)
(* moment the code asks.  The on-disk cache is the only state that         *)
(* survives a run.                                                         *)
(***************************************************************************)
EXTENDS Integers, Sequences, FiniteSets, TLC

\* ------------------------------------------------------------------ bounds
\* Number of runs of the program (processes started one after the other).
MaxRuns == 2
\* Largest value tried for --max-articles-per-source (main.py:21, default 80).
MaxCap == 2
\* Longest time, in ticks, one network exchange may take.
MaxLatency == 2
\* Fetches of one run of SpecFetch.
MaxFetches == 3
\* Concurrent callers of DomainLimiter.wait (SpecLimiter), and the calls each makes.
NumCallers == 2
MaxCalls == 2
\* Longest path, in tokens, of the URLs given to canonicalize_url (SpecCanon).
MaxPathLen == 4

\* ------------------------------------------------------- program constants
\* DomainLimiter(1.0) (fetchers.py:51): one second, in ticks of half a second.
MinInterval == 2

\* -------------------------------------------------------------- utilities
Min(a, b) == IF a < b THEN a ELSE b
Max(a, b) == IF a > b THEN a ELSE b

RECURSIVE SumSeq(_)
SumSeq(s) == IF s = <<>> THEN 0 ELSE Head(s) + SumSeq(Tail(s))

\* ------------------------------------------------------------------- URLs
\* A URL as urlparse splits it; a path is a sequence of tokens, "/" being
\* the separator.
U(netloc, path, query) ==
    [scheme |-> "https", netloc |-> netloc, path |-> path, query |-> query,
     fragment |-> ""]

NoUrl == [scheme |-> "", netloc |-> "", path |-> <<>>, query |-> "", fragment |-> ""]

MW_HOST  == "www.musicweek.com"
MBW_HOST == "www.musicbusinessworldwide.com"
OTHER_HOST == "cdn.example.org"

MW_LISTING  == U(MW_HOST, <<"/", "news">>, "")
MBW_LISTING == U(MBW_HOST, <<"/", "category", "/", "news", "/">>, "")
MBW_RSS     == U(MBW_HOST, <<"/", "feed", "/">>, "")

\* fetchers.py:28-38
SOURCES ==
    << [name |-> "Music Week", listing_url |-> MW_LISTING, rss_url |-> NoUrl,
        mode |-> "html_primary"],
       [name |-> "Music Business Worldwide", listing_url |-> MBW_LISTING,
        rss_url |-> MBW_RSS, mode |-> "rss_primary"] >>

SourceNames == {SOURCES[i].name : i \in DOMAIN SOURCES}

\* Article links the fixtures below use.
MW_A     == U(MW_HOST, <<"/", "news", "/", "a">>, "")
MW_A_SL  == U(MW_HOST, <<"/", "news", "/", "a", "/">>, "")
MW_ABOUT == U(MW_HOST, <<"/", "about">>, "")
MBW_B    == U(MBW_HOST, <<"/", "b">>, "")
MBW_B_Q  == U(MBW_HOST, <<"/", "b">>, "utm=rss")
MBW_C    == U(MBW_HOST, <<"/", "c">>, "")
OTHER_X  == U(OTHER_HOST, <<"/", "x">>, "")

\* Every URL the collector can come to request.
Urls == {MW_LISTING, MBW_LISTING, MBW_RSS, MW_A, MW_A_SL, MBW_B, MBW_B_Q, MBW_C}
Hosts == {u.netloc : u \in Urls}

\* str.lower() on the host names in use (they are lower case already, but for
\* the one mixed-case spelling).
Lower(s) == IF s = "WWW.MusicWeek.com" THEN MW_HOST ELSE s

\* re.sub(r"/+", "/", path): runs of separators collapse to one.
RECURSIVE CollapseSlashes(_)
CollapseSlashes(p) ==
    IF Len(p) <= 1 THEN p
    ELSE IF p[1] = "/" /\ p[2] = "/" THEN CollapseSlashes(Tail(p))
    ELSE <<p[1]>> \o CollapseSlashes(Tail(p))

\* str.rstrip("/")
RECURSIVE RStripSlash(_)
RStripSlash(p) ==
    IF p # <<>> /\ p[Len(p)] = "/" THEN RStripSlash(SubSeq(p, 1, Len(p) - 1)) ELSE p

\* Mutant: the trailing separator stays.
CanonicalizeNoStrip(url) ==
    LET p0   == IF url.path = <<>> THEN <<"/">> ELSE url.path
    IN  [scheme |-> url.scheme, netloc |-> Lower(url.netloc),
         path |-> CollapseSlashes(p0), query |-> "", fragment |-> ""]

\* utils.py:117-120, on the parts urlparse gives.
canonicalize_url(url) ==
    LET p0   == IF url.path = <<>> THEN <<"/">> ELSE url.path
        p1   == RStripSlash(CollapseSlashes(p0))
        path == IF p1 = <<>> THEN <<"/">> ELSE p1
    IN  [scheme |-> url.scheme, netloc |-> Lower(url.netloc), path |-> path,
         query |-> "", fragment |-> ""]

\* A URL as text: a sequence of tokens, "https" ":" "//" host, then the
\* tokens of the path, "?" query, "#" fragment.
\* urlunparse (utils.py:120): the text of the parts.
UrlText(u) ==
    (IF u.scheme # "" THEN <<u.scheme, ":">> ELSE <<>>)
      \o (IF u.netloc # ""
            THEN <<"//", u.netloc>>
                   \o (IF u.path # <<>> /\ u.path[1] # "/" THEN <<"/">> ELSE <<>>)
            ELSE <<>>)
      \o u.path
      \o (IF u.query # "" THEN <<"?", u.query>> ELSE <<>>)
      \o (IF u.fragment # "" THEN <<"#", u.fragment>> ELSE <<>>)

\* The position of the first tok in t, Len(t) + 1 when there is none.
FirstPos(t, tok) ==
    LET hits == {i \in DOMAIN t : t[i] = tok}
    IN  IF hits = {} THEN Len(t) + 1 ELSE CHOOSE i \in hits : \A j \in hits : i <= j

\* urlparse (utils.py:118): the parts of a text.
UrlParse(t) ==
    LET hasScheme == Len(t) >= 2 /\ t[2] = ":"
        r1   == IF hasScheme THEN SubSeq(t, 3, Len(t)) ELSE t
        hasLoc == Len(r1) >= 1 /\ r1[1] = "//"
        named  == hasLoc /\ Len(r1) >= 2 /\ r1[2] \notin {"/", "?", "#"}
        r2   == IF named THEN SubSeq(r1, 3, Len(r1))
                ELSE IF hasLoc THEN SubSeq(r1, 2, Len(r1)) ELSE r1
        h    == FirstPos(r2, "#")
        r3   == SubSeq(r2, 1, h - 1)
        q    == FirstPos(r3, "?")
    IN  [scheme |-> IF hasScheme THEN t[1] ELSE "",
         netloc |-> IF named THEN r1[2] ELSE "",
         path |-> SubSeq(r3, 1, q - 1),
         query |-> IF q + 1 <= Len(r3) THEN r3[q + 1] ELSE "",
         fragment |-> IF h + 1 <= Len(r2) THEN r2[h + 1] ELSE ""]

\* utils.py:117-120, text to text.
canonicalize_url_text(t) == UrlText(canonicalize_url(UrlParse(t)))

\* urlparse(url).netloc, the key of the limiter's map (utils.py:36).
Domain(url) == url.netloc
\* f"{scheme}://{netloc}", the key of the robots map (fetchers.py:238-239).
Root(url) == <<url.scheme, url.netloc>>
Roots == {Root(u) : u \in Urls}

\* utils.py:139-140: the cache file of a URL.  sha256 is taken to be free of
\* collisions on the URLs in use: the file name is a function of the exact
\* URL text, so two spellings of one canonical URL have two files.
cache_path_for_url(url) == <<"cache", url.scheme, url.netloc, url.path, url.query, url.fragment>>
CachePaths == {cache_path_for_url(u) : u \in Urls}

\* ------------------------------------------------- dates and text helpers
\* Instants are integers; NoDate stands for the empty string (no date).
NoDate == 0
\* start_dt, end_dt = date_range_london(args.days) (main.py:31).
start_dt == 2
end_dt == 3

\* Raw date texts: an integer n > 0 is a text that denotes the instant n in
\* one of the formats utils.py:62-103 accepts; UnparsableDate is a text none
\* of them accepts; NoDate is the empty text.
UnparsableDate == -1
\* utils.py:62-103 (None is NoDate: every caller maps None to "").
parse_date_to_iso(raw) == IF raw > 0 THEN raw ELSE NoDate

\* Mutant: the boundaries are left out.
InDateWindowOpen(date_iso, start, end) == start < date_iso /\ date_iso < end

\* utils.py:106-114
in_date_window(date_iso, start, end) == start <= date_iso /\ date_iso <= end

\* utils.py:134-136 on the texts in use: only LongText exceeds max_chars.
LongText == "long text of more than 300 characters"
safe_excerpt(text) == IF text = LongText THEN "long text cut to 297 characters..." ELSE text

\* --------------------------------------------------- what the sites serve
\* A response body is named; Links, Entries and PageFields say what
\* BeautifulSoup / feedparser find in it.
Empty == ""

\* soup.select("a[href]") with urljoin(listing_url, href) (fetchers.py:157-161);
\* the hrefs of the fixtures are absolute, which urljoin returns unchanged.
Links(body) ==
    CASE body = "mw listing, twice the same story" ->
            <<MW_A, OTHER_X, MW_ABOUT, MW_A_SL, MW_A>>
      [] body = "mw listing, redesigned" -> <<MW_ABOUT, OTHER_X>>
      [] body = "mbw listing" -> <<MBW_B, OTHER_X>>
      [] OTHER -> <<>>

\* feedparser.parse(xml).entries (fetchers.py:125)
Entries(body) ==
    CASE body = "mbw feed, one entry" ->
            << [link |-> MBW_B_Q, title |-> "Deal signed", published |-> 2,
                summary |-> "Label signs deal"] >>
      [] body = "mbw feed, three entries" ->
            << [link |-> MBW_B_Q, title |-> "", published |-> 1, summary |-> ""],
               [link |-> NoUrl, title |-> "No link", published |-> 2, summary |-> ""],
               [link |-> MBW_C, title |-> "Other title", published |-> UnparsableDate,
                summary |-> LongText] >>
      [] OTHER -> <<>>

\* What the rules of parser.py:28-111 find in a page: the canonical link (or
\* NoUrl), the title (parser.py:38-46 gives "Untitled" when there is none),
\* the raw date text, the description and the visible text.
PageFields(body) ==
    CASE body = "page with metadata" ->
            [canonical |-> NoUrl, title |-> "Deal signed (page)", date |-> 3,
             excerpt |-> "Page description", text |-> "Body text"]
      [] body = "page canonical elsewhere" ->
            [canonical |-> MBW_B, title |-> "Syndicated story", date |-> NoDate,
             excerpt |-> "", text |-> ""]
      [] body = "old page" ->
            [canonical |-> NoUrl, title |-> "Untitled", date |-> 1,
             excerpt |-> "", text |-> "Body text"]
      [] body = "page dated ahead" ->
            [canonical |-> NoUrl, title |-> "Embargoed", date |-> 4,
             excerpt |-> "Page description", text |-> ""]
      [] OTHER ->
            [canonical |-> NoUrl, title |-> "Untitled", date |-> NoDate,
             excerpt |-> "", text |-> ""]

\* parser.py:12-25
extract_article_metadata(html, original_url) ==
    LET f == PageFields(html)
    IN  [canonical_url |-> IF f.canonical # NoUrl THEN f.canonical ELSE original_url,
         title |-> f.title,
         date |-> parse_date_to_iso(f.date),
         excerpt |-> safe_excerpt(IF f.excerpt # "" THEN f.excerpt ELSE f.text),
         text |-> f.text]

\* The bodies a server may answer a GET of url with.
Served(url) ==
    IF url = MW_LISTING
      THEN {"mw listing, twice the same story", "mw listing, redesigned", Empty}
    ELSE IF url = MBW_LISTING THEN {"mbw listing", Empty}
    ELSE IF url = MBW_RSS THEN {"mbw feed, one entry", "mbw feed, three entries"}
    ELSE IF url.netloc = MW_HOST THEN {"page with metadata", "page canonical elsewhere"}
    ELSE {"page with metadata", "old page", "page dated ahead"}

Bodies == UNION {Served(u) : u \in Urls}

\* ------------------------------------------------------------ robots.txt
\* Disallow rules of a parsed robots.txt: path prefixes.  The files tried
\* disallow nothing, or the stories of either site.
RuleSets == { {}, {<<"/", "news", "/">>, <<"/", "b">>} }

\* What the retrieval of a robots.txt ends in: a file with rules, an HTTP
\* error status, or a transport error (URLError).
RobotsReplies ==
    [kind : {"file"}, rules : RuleSets, code : {200}]
      \cup [kind : {"http_error"}, rules : {{}}, code : {403, 404, 503}]
      \cup [kind : {"url_error"}, rules : {{}}, code : {0}]

IsPrefix(p, s) == Len(p) <= Len(s) /\ SubSeq(s, 1, Len(p)) = p

\* A rule set disallows a URL when one of its prefixes starts the URL's path.
Disallows(rules, url) == \E r \in rules : IsPrefix(r, url.path)

\* The values of self._robots[root] (fetchers.py:52): NotRead when the root is
\* no key of the map, None after a read that raised, else the parser.
NotRead == [state |-> "not read"]
None == [state |-> "None"]

\* urllib.robotparser.RobotFileParser.read() as fetchers.py:241-247 uses it:
\* a file is parsed; 401/403 sets disallow_all, another 4xx allow_all, any
\* other HTTP error leaves the parser as constructed (last_checked = 0);
\* a transport error raises, which line 246 turns into None.
RobotsRead(reply) ==
    CASE reply.kind = "file" ->
            [state |-> "parser", disallow_all |-> FALSE, allow_all |-> FALSE,
             last_checked |-> 1, rules |-> reply.rules]
      [] reply.kind = "http_error" ->
            [state |-> "parser",
             disallow_all |-> reply.code \in {401, 403},
             allow_all |-> reply.code \notin {401, 403} /\ reply.code >= 400 /\ reply.code < 500,
             last_checked |-> 0, rules |-> {}]
      [] OTHER -> None

\* Mutant: the rules of the file are not looked at.
RpCanFetchNoRules(rp, url) ==
    IF rp.disallow_all THEN FALSE
    ELSE IF rp.allow_all THEN TRUE
    ELSE rp.last_checked # 0

\* RobotFileParser.can_fetch(USER_AGENT, url), called at fetchers.py:249.
RpCanFetch(rp, url) ==
    IF rp.disallow_all THEN FALSE
    ELSE IF rp.allow_all THEN TRUE
    ELSE IF rp.last_checked = 0 THEN FALSE
    ELSE ~Disallows(rp.rules, url)

\* ------------------------------------------------------------ the collector
\* The collector's services as one record S:
\*   robots     self._robots (fetchers.py:52), by root;
\*   cache      the files of cache_dir, by path: a body, or NoFile;
\*   last       DomainLimiter._last_request (utils.py:33), by domain, kept as
\*              the time elapsed since the stored timestamp (now - last),
\*              capped at MinInterval; a domain that is no key of the map
\*              (last = 0.0) is at the cap;
\*   since      by domain, the time elapsed since the last network request
\*              of any kind to it (capped alike).
NoFile == "<no file>"
NoText == "<None>"

Falsy(text) == text \in {NoText, Empty}

\* What a step did, in order.  gap is, for a network request, the time since
\* the request before it to the same domain; for a wait, the time slept; for
\* should_keep, the date of the article decided on; "text" is the text that
\* _fetch_text returned (res), "fetch_article_page" the article that
\* _fetch_article_page returned (res) for the candidate of that url.
Event(op, url, res, gap) == [op |-> op, url |-> url, res |-> res, gap |-> gap]
NetOps == {"robots_read", "get"}

\* Time passing by d ticks.
Advance(m, d) == [x \in DOMAIN m |-> Min(m[x] + d, MinInterval)]

Elapse(S, d) == [S EXCEPT !.last = Advance(S.last, d), !.since = Advance(S.since, d)]

\* A network request to domain dom that takes lat ticks.
NetRequest(S, dom, lat) == Elapse([S EXCEPT !.since[dom] = 0], lat)

\* utils.py:39-40: the time to sleep, given elapsed = now - last.
SleepFor(elapsed) == IF elapsed < MinInterval THEN MinInterval - elapsed ELSE 0

\* utils.py:35-41, run by one caller alone.
LimiterWait(S, url) ==
    LET slept == Elapse(S, SleepFor(S.last[Domain(url)]))
    IN  [slept EXCEPT !.last[Domain(url)] = 0]

\* fetchers.py:237-249.  reply is what the retrieval of robots.txt ends in,
\* should it be made.
CanFetch(S, url, reply) ==
    LET root == Root(url)
        read == S.robots[root] = NotRead
        S1   == IF read
                  THEN [NetRequest(S, Domain(url), reply.lat)
                          EXCEPT !.robots[root] = RobotsRead(reply)]
                  ELSE S
        rp   == S1.robots[root]
        ok   == IF rp = None THEN TRUE ELSE RpCanFetch(rp, url)
    IN  [ok  |-> ok,
         S   |-> S1,
         evs |-> (IF read
                    THEN <<Event("robots_read", url, reply.kind, S.since[Domain(url)])>>
                    ELSE <<>>)
                 \o <<Event("can_fetch", url, IF ok THEN "allow" ELSE "refuse", 0)>>]

\* Mutant: nothing is written.
CacheWriteNever(cache, cached, path, text, o) == cache

\* fetchers.py:228-230: the body goes to the cache when caching is enabled.
CacheWrite(cache, cached, path, text, o) ==
    IF ~cached THEN cache
    ELSE IF o.io = "ok" THEN [cache EXCEPT ![path] = text]
    ELSE [cache EXCEPT ![path] = o.torn]

\* fetchers.py:216-235.  o is what the environment answers: the outcome of
\* the file operation (io), and for a GET its status, body and duration; torn
\* is what a failed write leaves of the file.
FetchText(S, diag, cached, url, o) ==
    LET path == cache_path_for_url(url)
    IN  IF cached /\ S.cache[path] # NoFile
          THEN \* lines 218-219
               [text |-> IF o.io = "ok" THEN S.cache[path] ELSE NoText,
                S |-> S, diag |-> diag,
                evs |-> <<Event("cache_read", url, o.io, 0)>>
                        \o (IF o.io = "ok" THEN <<Event("text", url, S.cache[path], 0)>>
                            ELSE <<>>),
                raised |-> o.io # "ok"]
          ELSE LET S1  == LimiterWait(S, url)
                   S2  == NetRequest(S1, Domain(url), o.lat)
                   evs == << Event("wait", url, "", SleepFor(S.last[Domain(url)])),
                             Event("get", url, o.status, S1.since[Domain(url)]) >>
               IN  IF o.status # "ok"
                     THEN \* lines 223-226 and 232-235
                          [text |-> NoText, S |-> S2,
                           diag |-> [diag EXCEPT !.request_failed = @ + 1],
                           evs |-> evs, raised |-> FALSE]
                     ELSE \* lines 227-231
                          [text |-> IF cached /\ o.io # "ok" THEN NoText ELSE o.body,
                           S |-> [S2 EXCEPT !.cache = CacheWrite(@, cached, path, o.body, o)],
                           diag |-> diag,
                           evs |-> evs \o (IF cached
                                             THEN <<Event("cache_write", url, o.io, 0)>>
                                             ELSE <<>>)
                                       \o (IF cached /\ o.io # "ok" THEN <<>>
                                           ELSE <<Event("text", url, o.body, 0)>>),
                           raised |-> cached /\ o.io # "ok"]

\* The record fetchers.py builds (lines 134-141 and 182): the fields it
\* passes and the defaults of the others.  text_for_nlp is a sequence of
\* text pieces, <<>> being the empty text.
Article(source, title_en, url, date, excerpt_en) ==
    [source |-> source, title_en |-> title_en, url |-> url, date |-> date,
     excerpt_en |-> excerpt_en, text_for_nlp |-> <<>>]

\* fetchers.py:64-76
NewDiag ==
    [urls_discovered |-> 0, urls_attempted |-> 0, articles_fetched |-> 0,
     articles_kept |-> 0, dropped_out_of_range |-> 0, kept_missing_date |-> 0,
     request_failed |-> 0, robots_disallow |-> 0, listing_changed |-> 0,
     paywall_or_no_content |-> 0, deduped |-> 0]

\* fetchers.py:188-195
ShouldKeep(article, diag) ==
    IF article.date # NoDate
      THEN IF ~in_date_window(article.date, start_dt, end_dt)
             THEN [keep |-> FALSE, diag |-> [diag EXCEPT !.dropped_out_of_range = @ + 1]]
             ELSE [keep |-> TRUE, diag |-> diag]
      ELSE [keep |-> TRUE, diag |-> [diag EXCEPT !.kept_missing_date = @ + 1]]

\* fetchers.py:206-214: the article with the fields of the page.
Enrich(article, html) ==
    LET parsed  == extract_article_metadata(html, article.url)
        \* canonical_url is never empty (parser.py:14)
        title   == IF parsed.title # "" THEN parsed.title ELSE article.title_en
        date    == IF parsed.date # NoDate THEN parsed.date ELSE article.date
        excerpt == safe_excerpt(IF parsed.excerpt # "" THEN parsed.excerpt
                                ELSE article.excerpt_en)
    IN  [article EXCEPT
           !.url = parsed.canonical_url,
           !.title_en = title,
           !.date = date,
           !.excerpt_en = excerpt,
           !.text_for_nlp = IF parsed.text # "" THEN <<parsed.text>>
                            ELSE <<title, ". ", excerpt>>]

\* Mutant: the attempt is counted twice.
CountAttemptTwice(diag) == [diag EXCEPT !.urls_attempted = @ + 2]

\* fetchers.py:201
CountAttempt(diag) == [diag EXCEPT !.urls_attempted = @ + 1]

\* fetchers.py:197-214
FetchArticlePage(S, diag, cached, article, reply, o) ==
    LET c == CanFetch(S, article.url, reply)
    IN  IF ~c.ok
          THEN [article |-> article, S |-> c.S,
                diag |-> [diag EXCEPT !.robots_disallow = @ + 1],
                evs |-> Append(c.evs, Event("fetch_article_page", article.url, article, 0)),
                raised |-> FALSE]
          ELSE LET d1 == CountAttempt(diag)
                   f  == FetchText(c.S, d1, cached, article.url, o)
               IN  IF f.raised \/ Falsy(f.text)
                     THEN [article |-> article, S |-> f.S, diag |-> f.diag,
                           evs |-> c.evs \o f.evs
                                     \o (IF f.raised THEN <<>>
                                         ELSE <<Event("fetch_article_page", article.url,
                                                      article, 0)>>),
                           raised |-> f.raised]
                     ELSE LET a == Enrich(article, f.text)
                              d2 == [f.diag EXCEPT !.articles_fetched = @ + 1]
                          IN  [article |-> a, S |-> f.S,
                               diag |-> IF a.excerpt_en = "" /\ a.text_for_nlp = <<>>
                                          THEN [d2 EXCEPT !.paywall_or_no_content = @ + 1]
                                          ELSE d2,
                               evs |-> c.evs \o f.evs
                                         \o <<Event("fetch_article_page", article.url, a, 0)>>,
                               raised |-> FALSE]

\* fetchers.py:118-123 and 148-153: the feed or the listing page, through
\* the robots check.
FetchPage(S, diag, cached, url, reply, o) ==
    LET c == CanFetch(S, url, reply)
    IN  IF ~c.ok
          THEN [text |-> NoText, S |-> c.S,
                diag |-> [diag EXCEPT !.robots_disallow = @ + 1],
                evs |-> c.evs, raised |-> FALSE]
          ELSE LET f == FetchText(c.S, diag, cached, url, o)
               IN  [text |-> f.text, S |-> f.S, diag |-> f.diag,
                    evs |-> c.evs \o f.evs, raised |-> f.raised]

\* fetchers.py:157-170: the same-origin links that pass the source's path
\* filter, each once, in the order of the page.
RECURSIVE Unique(_)
Unique(s) ==
    IF s = <<>> THEN <<>>
    ELSE LET r == Unique(SubSeq(s, 1, Len(s) - 1))
             x == s[Len(s)]
         IN  IF \E i \in DOMAIN r : r[i] = x THEN r ELSE Append(r, x)

HasSub(p, sub) ==
    \E i \in 1..(Len(p) - Len(sub) + 1) : SubSeq(p, i, i + Len(sub) - 1) = sub

PassesFilter(source, listing_url, full) ==
    /\ full.netloc = listing_url.netloc
    /\ source = "Music Week" => HasSub(full.path, <<"/", "news", "/">>)
    \* "/" is in every URL text, so line 166 filters nothing

CandidateLinks(source, listing_url, html) ==
    Unique(SelectSeq(Links(html), LAMBDA full : PassesFilter(source, listing_url, full)))

\* The dedupe loop of fetchers.py:90-97, from the set seen.
RECURSIVE DedupeLoop(_, _)
DedupeLoop(articles, seen0) ==
    IF articles = <<>> THEN [out |-> <<>>, seen |-> seen0, dropped |-> 0]
    ELSE LET key == canonicalize_url(Head(articles).url)
         IN  IF key \in seen0
               THEN LET r == DedupeLoop(Tail(articles), seen0)
                    IN  [r EXCEPT !.dropped = @ + 1]
               ELSE LET r == DedupeLoop(Tail(articles), seen0 \cup {key})
                    IN  [r EXCEPT !.out = <<Head(articles)>> \o @]

\* utils.py:123-131
dedupe_articles(articles) == DedupeLoop(articles, {}).out

\* Mutant: one element too many.
SliceOneMore(seq, n) == SubSeq(seq, 1, Min(n + 1, Len(seq)))

\* seq[:n] of Python.
Slice(seq, n) ==
    IF n >= 0 THEN SubSeq(seq, 1, Min(n, Len(seq)))
    ELSE SubSeq(seq, 1, Max(Len(seq) + n, 0))

\* list.sort(key=lambda a: a.date or "", reverse=True) (main.py:44): stable,
\* latest first, the undated last.
RECURSIVE SortByDateDesc(_)
SortByDateDesc(s) ==
    IF s = <<>> THEN <<>>
    ELSE LET rest == SortByDateDesc(SubSeq(s, 1, Len(s) - 1))
             x    == s[Len(s)]
             k    == Cardinality({i \in DOMAIN rest : rest[i].date >= x.date})
         IN  SubSeq(rest, 1, k) \o <<x>> \o SubSeq(rest, k + 1, Len(rest))

\* Mutant: the comparison with the cap is off by one.
SecondaryRunsAtCap(cfg, n, cap) ==
    IF cfg.mode = "rss_primary" THEN n <= cap
    ELSE n <= cap /\ cfg.rss_url # NoUrl

\* fetchers.py:83 and 87: whether the second strategy runs after the first
\* returned n articles.
SecondaryRuns(cfg, n, cap) ==
    IF cfg.mode = "rss_primary" THEN n < cap
    ELSE n < cap /\ cfg.rss_url # NoUrl

\* ------------------------------------------------------------------ state
VARIABLES
    run,                      \* the number of the run (process) under way
    use_cache,                \* not --no-cache (main.py:39)
    max_articles_per_source,  \* main.py:37
    cache,                    \* the files of the cache directory
    _robots,                  \* NewsCollector._robots
    _last_request,            \* DomainLimiter._last_request, as elapsed time
    since,                    \* elapsed time since the last network request, by domain
    requested,                \* URLs asked of _fetch_text with caching enabled
    pc,                       \* where the run is
    src_i,                    \* the source collect() is at (fetchers.py:57)
    stage,                    \* "primary" or "secondary" strategy of the source
    diag, seen, collected,    \* the locals of _collect_source
    from_primary,             \* how many of collected the primary strategy gave
    queue, output,            \* the loop of the strategy under way
    result, diagnostics,      \* collect()'s result and self.diagnostics
    all_articles,             \* main.py:43-44
    fetches,                  \* SpecFetch: the fetches made in this run
    caller,                   \* SpecLimiter: the callers of DomainLimiter.wait
    ev                        \* what the last step did, in order

vars == <<run, use_cache, max_articles_per_source, cache, _robots, _last_request,
          since, requested, pc, src_i, stage, diag, seen, collected,
          from_primary, queue, output, result, diagnostics, all_articles,
          fetches, caller, ev>>

Svc == [robots |-> _robots, cache |-> cache, last |-> _last_request, since |-> since]

SetSvc(S) ==
    /\ _robots' = S.robots
    /\ cache' = S.cache
    /\ _last_request' = S.last
    /\ since' = S.since

\* NewsCollector.__init__ (fetchers.py:42-53) on an empty cache directory.
InitCollector ==
    /\ run = 1
    /\ use_cache \in BOOLEAN
    /\ max_articles_per_source \in 0..MaxCap
    /\ cache = [p \in CachePaths |-> NoFile]
    /\ _robots = [r \in Roots |-> NotRead]
    /\ _last_request = [h \in Hosts |-> MinInterval]
    /\ since = [h \in Hosts |-> MinInterval]
    /\ requested = {}
    /\ pc = "collect"
    /\ src_i = 1
    /\ stage = "primary"
    /\ diag = NewDiag
    /\ seen = {}
    /\ collected = <<>>
    /\ from_primary = 0
    /\ queue = <<>>
    /\ output = <<>>
    /\ result = <<>>
    /\ diagnostics = <<>>
    /\ all_articles = <<>>
    /\ fetches = 0
    /\ ev = <<>>

Init ==
    /\ InitCollector
    /\ caller = <<>>

\* ------------------------------------------------------- the environment
\* What the robots.txt retrieval of CanFetch(S, url, _) may end in, taking
\* one of the times lats.
RobotsOracle(S, url, lats) ==
    IF S.robots[Root(url)] = NotRead
      THEN {[kind |-> r.kind, rules |-> r.rules, code |-> r.code, lat |-> l] :
              r \in RobotsReplies, l \in lats}
      ELSE {[kind |-> "none", rules |-> {}, code |-> 0, lat |-> 0]}

\* What the environment may answer FetchText(S, _, cached, url, _).
FetchOracle(S, cached, url, lats) ==
    IF cached /\ S.cache[cache_path_for_url(url)] # NoFile
      THEN {[status |-> "ok", body |-> Empty, lat |-> 0, io |-> i, torn |-> NoFile] :
              i \in {"ok", "oserror"}}
      ELSE {[status |-> st, body |-> Empty, lat |-> l, io |-> "ok", torn |-> NoFile] :
              st \in {"http_error", "transport_error"}, l \in lats}
           \cup {[status |-> "ok", body |-> b, lat |-> l, io |-> "ok", torn |-> NoFile] :
              b \in Served(url), l \in lats}
           \cup (IF cached
                   THEN {[status |-> "ok", body |-> b, lat |-> l, io |-> "oserror",
                          torn |-> t] :
                          b \in Served(url), l \in lats, t \in {NoFile, Empty}}
                   ELSE {})

\* The same after the robots check c: nothing is asked when it refused.
FetchOracleIf(c, cached, url, lats) ==
    IF c.ok THEN FetchOracle(c.S, cached, url, lats)
    ELSE {[status |-> "none", body |-> Empty, lat |-> 0, io |-> "ok", torn |-> NoFile]}

\* The collector's run is followed with the exchanges taking no time.
Instant == {0}

\* ---------------------------------------------------------------- actions
Cfg == SOURCES[src_i]

\* fetchers.py:82-88: the strategy under way returned out.
Return(out) ==
    LET all == collected \o out
    IN  /\ collected' = all
        /\ queue' = <<>>
        /\ output' = <<>>
        /\ IF stage = "primary"
             THEN /\ from_primary' = Len(all)
                  /\ IF SecondaryRuns(Cfg, Len(all), max_articles_per_source)
                       THEN /\ stage' = "secondary"
                            /\ pc' = IF Cfg.mode = "rss_primary" THEN "listing" ELSE "rss"
                       ELSE /\ stage' = stage
                            /\ pc' = "dedupe"
             ELSE /\ from_primary' = from_primary
                  /\ stage' = stage
                  /\ pc' = "dedupe"

\* An exception leaves _collect_source, collect() and main().
Raise ==
    /\ pc' = "raised"
    /\ UNCHANGED <<collected, queue, output, stage, from_primary>>

\* fetchers.py:57-58 and 63-81: collect() enters _collect_source.
StartSource ==
    /\ pc = "collect"
    /\ src_i <= Len(SOURCES)
    /\ diag' = NewDiag
    /\ seen' = {}
    /\ collected' = <<>>
    /\ from_primary' = 0
    /\ stage' = "primary"
    /\ pc' = IF Cfg.mode = "rss_primary" THEN "rss" ELSE "listing"
    /\ ev' = <<>>
    /\ UNCHANGED <<run, fetches, caller, use_cache, max_articles_per_source, cache, _robots,
                   _last_request, since, requested, src_i, queue, output,
                   result, diagnostics, all_articles>>

\* fetchers.py:115-126
CollectFromRss ==
    /\ pc = "rss"
    /\ IF Cfg.rss_url = NoUrl
         THEN /\ Return(<<>>)
              /\ ev' = <<>>
              /\ UNCHANGED <<diag, cache, _robots, _last_request, since>>
         ELSE \E reply \in RobotsOracle(Svc, Cfg.rss_url, Instant) :
              \E o \in FetchOracleIf(CanFetch(Svc, Cfg.rss_url, reply), use_cache,
                                     Cfg.rss_url, Instant) :
                 LET f == FetchPage(Svc, diag, use_cache, Cfg.rss_url, reply, o)
                 IN  /\ SetSvc(f.S)
                     /\ diag' = f.diag
                     /\ ev' = f.evs
                     /\ IF f.raised THEN Raise
                        ELSE IF Falsy(f.text) THEN Return(<<>>)
                        ELSE /\ queue' = Entries(f.text)
                             /\ output' = <<>>
                             /\ pc' = "rss_loop"
                             /\ UNCHANGED <<collected, stage, from_primary>>
    /\ UNCHANGED <<run, fetches, caller, use_cache, max_articles_per_source, requested, src_i, seen,
                   result, diagnostics, all_articles>>

\* One candidate of either loop: fetchers.py:142-144 and 183-185.
Candidate(article, d) ==
    \E reply \in RobotsOracle(Svc, article.url, Instant) :
    \E o \in FetchOracleIf(CanFetch(Svc, article.url, reply), use_cache, article.url,
                           Instant) :
    \E f \in {FetchArticlePage(Svc, d, use_cache, article, reply, o)} :
    \E k \in {ShouldKeep(f.article, f.diag)} :
           /\ SetSvc(f.S)
           /\ ev' = IF f.raised THEN f.evs
                    ELSE Append(f.evs, Event("should_keep", f.article.url,
                                             IF k.keep THEN "keep" ELSE "drop",
                                             f.article.date))
           /\ IF f.raised
                THEN /\ diag' = f.diag
                     /\ pc' = "raised"
                     /\ output' = output
                ELSE /\ diag' = k.diag
                     /\ pc' = pc
                     /\ output' = IF k.keep THEN Append(output, f.article) ELSE output

\* A candidate the loop passes over (continue).
Skip(d) ==
    /\ diag' = d
    /\ ev' = <<>>
    /\ UNCHANGED <<pc, output, cache, _robots, _last_request, since>>

\* fetchers.py:127-144: one entry of the feed.
RssEntry ==
    /\ pc = "rss_loop"
    /\ queue # <<>>
    /\ queue' = Tail(queue)
    /\ LET entry == Head(queue)
           url   == entry.link
           d1    == [diag EXCEPT !.urls_discovered = @ + 1]
       IN  IF url = NoUrl THEN Skip(diag)
           ELSE IF canonicalize_url(url) \in seen THEN Skip(d1)
           ELSE Candidate(Article(Cfg.name,
                                  IF entry.title # "" THEN entry.title ELSE "Untitled",
                                  url, parse_date_to_iso(entry.published),
                                  safe_excerpt(entry.summary)),
                          d1)
    /\ UNCHANGED <<run, fetches, caller, use_cache, max_articles_per_source, requested, src_i, stage,
                   seen, collected, from_primary, result, diagnostics, all_articles>>

\* fetchers.py:145: the feed is through.
RssReturn ==
    /\ pc = "rss_loop"
    /\ queue = <<>>
    /\ Return(output)
    /\ ev' = <<>>
    /\ UNCHANGED <<run, fetches, caller, use_cache, max_articles_per_source, cache, _robots,
                   _last_request, since, requested, src_i, diag, seen,
                   result, diagnostics, all_articles>>

\* fetchers.py:147-176
CollectFromListing ==
    /\ pc = "listing"
    /\ \E reply \in RobotsOracle(Svc, Cfg.listing_url, Instant) :
       \E o \in FetchOracleIf(CanFetch(Svc, Cfg.listing_url, reply), use_cache,
                              Cfg.listing_url, Instant) :
          LET f == FetchPage(Svc, diag, use_cache, Cfg.listing_url, reply, o)
              unique_urls == CandidateLinks(Cfg.name, Cfg.listing_url, f.text)
              d1 == [f.diag EXCEPT !.urls_discovered = @ + Len(unique_urls)]
          IN  /\ SetSvc(f.S)
              /\ ev' = f.evs
              /\ IF f.raised THEN diag' = f.diag /\ Raise
                 ELSE IF Falsy(f.text) THEN diag' = f.diag /\ Return(<<>>)
                 ELSE /\ diag' = IF unique_urls = <<>>
                                   THEN [d1 EXCEPT !.listing_changed = @ + 1]
                                   ELSE d1
                      /\ queue' = unique_urls
                      /\ output' = <<>>
                      /\ pc' = "listing_loop"
                      /\ UNCHANGED <<collected, stage, from_primary>>
    /\ UNCHANGED <<run, fetches, caller, use_cache, max_articles_per_source, requested, src_i, seen,
                   result, diagnostics, all_articles>>

\* fetchers.py:177-185: one link of the listing page.
ListingUrl ==
    /\ pc = "listing_loop"
    /\ queue # <<>>
    /\ Len(output) < max_articles_per_source
    /\ queue' = Tail(queue)
    /\ LET url == Head(queue)
       IN  IF canonicalize_url(url) \in seen THEN Skip(diag)
           ELSE Candidate(Article(Cfg.name, "Untitled", url, NoDate, ""), diag)
    /\ UNCHANGED <<run, fetches, caller, use_cache, max_articles_per_source, requested, src_i, stage,
                   seen, collected, from_primary, result, diagnostics, all_articles>>

\* fetchers.py:178-179 and 186: the loop ends, or breaks at the cap.
ListingReturn ==
    /\ pc = "listing_loop"
    /\ queue = <<>> \/ Len(output) >= max_articles_per_source
    /\ Return(output)
    /\ ev' = <<>>
    /\ UNCHANGED <<run, fetches, caller, use_cache, max_articles_per_source, cache, _robots,
                   _last_request, since, requested, src_i, diag, seen,
                   result, diagnostics, all_articles>>

\* fetchers.py:90-113, and collect() storing what it returns (lines 59-60).
DedupeAndCap ==
    /\ pc = "dedupe"
    /\ LET r       == DedupeLoop(collected, seen)
           deduped == Slice(r.out, max_articles_per_source)
           d       == [diag EXCEPT !.deduped = @ + r.dropped,
                                   !.articles_kept = Len(deduped)]
       IN  /\ seen' = r.seen
           /\ diag' = d
           /\ result' = Append(result, deduped)
           /\ diagnostics' = Append(diagnostics, d)
    /\ src_i' = src_i + 1
    /\ pc' = "collect"
    /\ ev' = <<>>
    /\ UNCHANGED <<run, fetches, caller, use_cache, max_articles_per_source, cache, _robots,
                   _last_request, since, requested, stage, collected,
                   from_primary, queue, output, all_articles>>

RECURSIVE Flatten(_)
Flatten(rows) == IF rows = <<>> THEN <<>> ELSE Head(rows) \o Flatten(Tail(rows))

\* fetchers.py:61 and main.py:42-44: collect() returns, main merges.
MainDedupe ==
    /\ pc = "collect"
    /\ src_i > Len(SOURCES)
    /\ all_articles' = SortByDateDesc(dedupe_articles(Flatten(result)))
    /\ pc' = "done"
    /\ ev' = <<>>
    /\ UNCHANGED <<run, fetches, caller, use_cache, max_articles_per_source, cache, _robots,
                   _last_request, since, requested, src_i, stage, diag, seen,
                   collected, from_primary, queue, output, result, diagnostics>>

Next ==
    \/ StartSource
    \/ CollectFromRss
    \/ RssEntry
    \/ RssReturn
    \/ CollectFromListing
    \/ ListingUrl
    \/ ListingReturn
    \/ DedupeAndCap
    \/ MainDedupe

Spec == Init /\ [][Next]_vars

\* --------------------------------------------- the fetch path on its own
\* SpecFetch: the fetch path of fetchers.py (the robots check, then
\* _fetch_text) asked for one URL after the other, each time on behalf of a
\* new source (a new diag), over several runs of the program, the exchanges
\* taking time.
FetchUrls == {MW_LISTING, MW_A}
Latencies == 0..MaxLatency

collectorVars == <<max_articles_per_source, src_i, stage, seen, collected, from_primary,
                   queue, output, result, diagnostics, all_articles, caller>>

InitFetch ==
    /\ Init
    /\ max_articles_per_source = 0

\* fetchers.py:118-121, 148-151, 198-202: one URL is asked for.
FetchOne ==
    /\ pc = "collect"
    /\ fetches < MaxFetches
    /\ fetches' = fetches + 1
    /\ \E url \in FetchUrls :
       \E reply \in RobotsOracle(Svc, url, Latencies) :
       \E o \in FetchOracleIf(CanFetch(Svc, url, reply), use_cache, url, Latencies) :
          LET f == FetchPage(Svc, NewDiag, use_cache, url, reply, o)
          IN  /\ SetSvc(f.S)
              /\ diag' = f.diag
              /\ ev' = f.evs
              /\ requested' = IF use_cache /\ CanFetch(Svc, url, reply).ok
                                THEN requested \cup {url} ELSE requested
              /\ pc' = IF f.raised THEN "raised" ELSE pc
    /\ UNCHANGED <<run, use_cache>>
    /\ UNCHANGED collectorVars

\* The program is started again, later: a new collector (fetchers.py:42-53)
\* over the cache directory as the run before left it.
Restart ==
    /\ run < MaxRuns
    /\ run' = run + 1
    /\ use_cache' \in BOOLEAN
    /\ _robots' = [r \in Roots |-> NotRead]
    /\ _last_request' = [h \in Hosts |-> MinInterval]
    /\ since' = [h \in Hosts |-> MinInterval]
    /\ diag' = NewDiag
    /\ fetches' = 0
    /\ pc' = "collect"
    /\ ev' = <<>>
    /\ UNCHANGED <<cache, requested>>
    /\ UNCHANGED collectorVars

NextFetch ==
    \/ FetchOne
    \/ Restart

SpecFetch == InitFetch /\ [][NextFetch]_vars

\* ------------------------------------------ DomainLimiter.wait, concurrently
\* SpecLimiter: NumCallers threads share one DomainLimiter and call wait(url)
\* before each of their requests, as _fetch_text does (fetchers.py:220-222).
\* A call is the steps of utils.py:35-41: the check (lines 36-39), the sleep
\* (line 40), and the update (line 41) that the request follows at once.
Callers == 1..NumCallers
LimiterUrls == {MW_A, MBW_B}

InitLimiter ==
    /\ InitCollector
    /\ use_cache = FALSE
    /\ max_articles_per_source = 0
    /\ caller = [t \in Callers |-> [pc |-> "idle", url |-> NoUrl, sleep |-> 0, calls |-> 0]]

limiterFrame == <<run, use_cache, max_articles_per_source, cache, _robots, requested, pc,
                  src_i, stage, diag, seen, collected, from_primary, queue, output,
                  result, diagnostics, all_articles, fetches>>

\* utils.py:36-39: the caller reads the clock and the map and settles how
\* long it will sleep.
WaitCheck(t) ==
    /\ caller[t].pc = "idle"
    /\ caller[t].calls < MaxCalls
    /\ \E url \in LimiterUrls :
          caller' = [caller EXCEPT ![t] =
                       [pc |-> "sleeping", url |-> url,
                        sleep |-> SleepFor(_last_request[Domain(url)]),
                        calls |-> @.calls + 1]]
    /\ ev' = <<>>
    /\ UNCHANGED <<_last_request, since>>
    /\ UNCHANGED limiterFrame

\* One tick passes; who sleeps (utils.py:40) has one tick less to sleep.
Tick ==
    /\ \/ \E h \in Hosts : _last_request[h] < MinInterval \/ since[h] < MinInterval
       \/ \E t \in Callers : caller[t].sleep > 0
    /\ _last_request' = Advance(_last_request, 1)
    /\ since' = Advance(since, 1)
    /\ caller' = [t \in Callers |-> [caller[t] EXCEPT !.sleep = Max(@ - 1, 0)]]
    /\ ev' = <<>>
    /\ UNCHANGED limiterFrame

\* utils.py:41 and fetchers.py:222: the sleep is over, the caller stores the
\* time and issues its request.
WaitReturn(t) ==
    /\ caller[t].pc = "sleeping"
    /\ caller[t].sleep = 0
    /\ LET dom == Domain(caller[t].url)
       IN  /\ _last_request' = [_last_request EXCEPT ![dom] = 0]
           /\ since' = [since EXCEPT ![dom] = 0]
           /\ ev' = <<Event("get", caller[t].url, "ok", since[dom])>>
    /\ caller' = [caller EXCEPT ![t].pc = "idle"]
    /\ UNCHANGED limiterFrame

NextLimiter ==
    \/ \E t \in Callers : WaitCheck(t)
    \/ Tick
    \/ \E t \in Callers : WaitReturn(t)

SpecLimiter == InitLimiter /\ [][NextLimiter]_vars

\* ------------------------------------------------ canonicalize_url by itself
\* SpecCanon: canonicalize_url applied to the texts of two URLs, one after
\* the other.  The URLs tried: either spelling of the host, every path of at
\* most MaxPathLen tokens (separators and a segment a), with and without a
\* query and a fragment.
CanonPaths ==
    {<<>>} \cup
    {p \in UNION {[1..n -> {"/", "a"}] : n \in 1..MaxPathLen} :
        /\ p[1] = "/"
        /\ \A i \in 1..(Len(p) - 1) : ~(p[i] = "a" /\ p[i + 1] = "a")}

CanonUrls ==
    {UrlText([scheme |-> "https", netloc |-> h, path |-> p, query |-> q, fragment |-> f]) :
        h \in {MW_HOST, "WWW.MusicWeek.com"}, p \in CanonPaths,
        q \in {"", "utm=rss"}, f \in {"", "top"}}

InitCanon ==
    /\ run = 1
    /\ use_cache = FALSE
    /\ max_articles_per_source = 0
    /\ cache = [p \in CachePaths |-> NoFile]
    /\ _robots = [r \in Roots |-> NotRead]
    /\ _last_request = [h \in Hosts |-> MinInterval]
    /\ since = [h \in Hosts |-> MinInterval]
    /\ requested = {}
    /\ pc = "canon"
    /\ src_i = 1
    /\ stage = "primary"
    /\ diag = NewDiag
    /\ seen = {}
    /\ collected = <<>>
    /\ from_primary = 0
    /\ queue \in {<<u, v>> : u \in CanonUrls, v \in CanonUrls}
    /\ output = <<>>
    /\ result = <<>>
    /\ diagnostics = <<>>
    /\ all_articles = <<>>
    /\ fetches = 0
    /\ caller = <<>>
    /\ ev = <<>>

\* utils.py:117-120: the key of the next URL; collected holds the URLs given,
\* output their keys.
CanonicalizeNext ==
    /\ pc = "canon"
    /\ queue # <<>>
    /\ queue' = Tail(queue)
    /\ collected' = Append(collected, Head(queue))
    /\ output' = Append(output, canonicalize_url_text(Head(queue)))
    /\ UNCHANGED <<run, use_cache, max_articles_per_source, cache, _robots,
                   _last_request, since, requested, pc, src_i, stage, diag, seen,
                   from_primary, result, diagnostics, all_articles, fetches,
                   caller, ev>>

NextCanon == CanonicalizeNext

SpecCanon == InitCanon /\ [][NextCanon]_vars

\* ================================================================ claims
\* A robots.txt that was read and parsed, as against every other outcome.
Parsed(rp) == rp \notin {NotRead, None} /\ rp.last_checked # 0
ParsedDisallows(rp, url) == Parsed(rp) /\ Disallows(rp.rules, url)

Has(evs, op) == \E i \in DOMAIN evs : evs[i].op = op

\* The articles of seq that have no earlier article of the same canonical
\* key, in the order of seq.
FirstIdx(seq) ==
    {i \in DOMAIN seq :
        \A j \in 1..(i - 1) : canonicalize_url(seq[j].url) # canonicalize_url(seq[i].url)}

FirstOccurrences(seq) ==
    LET F[n \in 0..Len(seq)] ==
            IF n = 0 THEN <<>>
            ELSE IF n \in FirstIdx(seq) THEN Append(F[n - 1], seq[n]) ELSE F[n - 1]
    IN  F[Len(seq)]

Take(seq, n) == SubSeq(seq, 1, Min(n, Len(seq)))
Elems(seq) == {seq[i] : i \in DOMAIN seq}

\* ---- C1 ----------------------------------------------------------------
\* C1: a URL that the parsed robots.txt of its origin disallows is never
\* requested with a GET, and each time such a URL comes up the source's
\* robots_disallow counter goes up by one.
T_C1 ==
    [][\A i \in DOMAIN ev' :
         LET e == ev'[i] IN
         /\ e.op = "get" => ~ParsedDisallows(_robots'[Root(e.url)], e.url)
         /\ (e.op = "can_fetch" /\ ParsedDisallows(_robots'[Root(e.url)], e.url))
              => /\ ~Has(ev', "get")
                 /\ diag'.robots_disallow = diag.robots_disallow + 1]_vars

\* C1 witness: a story link was refused on the rules of a parsed file, and counted.
W_C1 ==
    /\ \E i \in DOMAIN ev :
          /\ ev[i].op = "can_fetch"
          /\ ev[i].res = "refuse"
          /\ ParsedDisallows(_robots[Root(ev[i].url)], ev[i].url)
    /\ pc = "listing_loop"
    /\ diag.robots_disallow = 1

\* ---- C2 ----------------------------------------------------------------
\* C2: whenever the robots.txt of the origin was not read and parsed,
\* whatever the retrieval ended in, _can_fetch returns true.
CE_C2 ==
    \A i \in DOMAIN ev :
       (ev[i].op = "can_fetch" /\ ~Parsed(_robots[Root(ev[i].url)]))
          => ev[i].res = "allow"

\* ---- C3 ----------------------------------------------------------------
\* C3 as stated: with caching enabled, a URL that _fetch_text was called for
\* before is not requested with a GET again.
CE_C3 ==
    [][\A i \in DOMAIN ev' :
         (ev'[i].op = "get" /\ use_cache) => ev'[i].url \notin requested]_vars

\* C3 as amended: with caching enabled a GET is issued only for a URL that has
\* no cache file, and a GET whose body was written leaves the file of the
\* URL, so every later call with caching enabled is served from the file; a
\* GET that failed leaves no file.
T_C3 ==
    [][\A i \in DOMAIN ev' :
         LET e == ev'[i]
             p == cache_path_for_url(e.url)
         IN  /\ (e.op = "get" /\ use_cache) => cache[p] = NoFile
             /\ (e.op = "cache_write" /\ e.res = "ok") => cache'[p] \in Served(e.url)
             /\ (e.op = "get" /\ e.res # "ok") => cache'[p] = cache[p]
             /\ (e.op = "can_fetch" /\ e.res = "allow" /\ use_cache /\ cache[p] # NoFile)
                   => ~Has(ev', "get")]_vars

\* C3 witness: a second call for a URL was served from its cache file.
W_C3 ==
    /\ use_cache
    /\ \E i \in DOMAIN ev :
          ev[i].op = "cache_read" /\ ev[i].res = "ok" /\ ev[i].url \in requested
    /\ ~Has(ev, "get")

\* ---- C4 ----------------------------------------------------------------
\* C4: when a cache file exists for the URL asked for, the fetch reads it and
\* goes to the network for nothing: no robots.txt retrieval, no wait, no GET.
CE_C4 ==
    [][\A i \in DOMAIN ev' :
         (/\ ev'[i].op = "can_fetch"
          /\ use_cache
          /\ cache[cache_path_for_url(ev'[i].url)] # NoFile)
            => /\ Has(ev', "cache_read")
               /\ ~Has(ev', "robots_read")
               /\ ~Has(ev', "wait")
               /\ ~Has(ev', "get")]_vars

\* ---- C5 ----------------------------------------------------------------
\* C5: every network request of the collector comes at least MinInterval
\* after the request before it to the same domain.
CE_C5 ==
    \A i \in DOMAIN ev : ev[i].op \in NetOps => ev[i].gap >= MinInterval

\* ---- C6 ----------------------------------------------------------------
\* C6: with concurrent callers of wait, no caller's request follows another
\* request to the same domain by less than MinInterval.
CE_C6 ==
    \A t \in DOMAIN caller :
       \A i \in DOMAIN ev :
          (ev[i].op = "get" /\ ev[i].url = caller[t].url) => ev[i].gap >= MinInterval

\* ---- C7 ----------------------------------------------------------------
TotalDeduped(ds) == SumSeq([i \in DOMAIN ds |-> ds[i].deduped])

\* C7: in the pass within a source and in the merge across sources, the
\* first article of each canonical key is kept as it is, the later ones are
\* dropped, and a deduped counter goes up by one for each one dropped.
CE_C7 ==
    [][/\ (pc = "dedupe" /\ pc' = "collect")
            => LET kept == FirstOccurrences(collected)
               IN  /\ result'[src_i] = Take(kept, Len(result'[src_i]))
                   /\ diag'.deduped = diag.deduped + Len(collected) - Len(kept)
       /\ (pc = "collect" /\ pc' = "done")
            => LET flat == Flatten(result)
                   kept == FirstOccurrences(flat)
               IN  /\ Elems(all_articles') = Elems(kept)
                   /\ Len(all_articles') = Len(kept)
                   /\ TotalDeduped(diagnostics')
                        = TotalDeduped(diagnostics) + Len(flat) - Len(kept)]_vars

\* ---- C8 ----------------------------------------------------------------
\* The primary strategy of the source returns in this step.
PrimaryReturns == stage = "primary" /\ (pc' = "dedupe" \/ stage' = "secondary")

\* C8 as stated: for every source the secondary strategy is invoked exactly
\* when the primary one returned fewer articles than the cap.
CE_C8 ==
    [][PrimaryReturns
         => (stage' = "secondary" <=> from_primary' < max_articles_per_source)]_vars

\* A source has a secondary strategy: the listing page of a feed-first
\* source, the feed of a listing-first source that names one.
HasSecondary(cfg) == cfg.mode = "rss_primary" \/ cfg.rss_url # NoUrl

\* C8 as amended: for every source that has a secondary strategy it is
\* invoked exactly when the primary one returned fewer articles than the
\* cap, for a source without one it never is; and nothing of the secondary
\* strategy happens once the primary returned the cap or more.
T_C8 ==
    /\ [][PrimaryReturns
            => (stage' = "secondary"
                  <=> (from_primary' < max_articles_per_source /\ HasSecondary(Cfg)))]_vars
    /\ []((stage = "secondary" /\ pc \in {"rss", "rss_loop", "listing", "listing_loop"})
            => from_primary < max_articles_per_source /\ HasSecondary(Cfg))

\* C8 witness: the secondary strategy of a source is fetching.
W_C8 ==
    /\ stage = "secondary"
    /\ pc = "listing_loop"
    /\ Has(ev, "get")
    /\ from_primary < max_articles_per_source

FetchFailed(evs) ==
    \E i \in DOMAIN evs :
       \/ evs[i].op = "get" /\ evs[i].res # "ok"
       \/ evs[i].op \in {"cache_read", "cache_write"} /\ evs[i].res # "ok"

\* C10: a fetch that fails, be it on the status, the transport or the cache
\* file, raises nothing: request_failed goes up by one and the run goes on.
CE_C10 ==
    [][FetchFailed(ev')
         => /\ pc' # "raised"
            /\ diag'.request_failed = diag.request_failed + 1]_vars

\* ---- C11 ---------------------------------------------------------------
\* A diagnostics record says why the list of its source is empty.
Explains(d) ==
    \/ d.request_failed > 0
    \/ d.robots_disallow > 0
    \/ d.listing_changed > 0
    \/ d.paywall_or_no_content > 0
    \/ d.dropped_out_of_range > 0
    \/ d.deduped > 0

\* C11: once collect has returned, every configured source has its list and
\* its diagnostics record, and the record of a source whose list is empty
\* has one of the explaining counters above zero.
CE_C11 ==
    pc = "done"
      => /\ Len(result) = Len(SOURCES)
         /\ Len(diagnostics) = Len(SOURCES)
         /\ \A i \in DOMAIN result : result[i] = <<>> => Explains(diagnostics[i])

\* ---- C12 ---------------------------------------------------------------
\* The keep decisions of the step that gave evs.
Decisions(evs) == {i \in DOMAIN evs : evs[i].op = "should_keep"}

MatchingLinks(source, listing_url, html) ==
    {l \in Elems(Links(html)) :
        /\ l.scheme = listing_url.scheme /\ l.netloc = listing_url.netloc
        /\ source = "Music Week" => HasSub(l.path, <<"/", "news", "/">>)}

\* C13: when _fetch_text returned the listing page, listing_changed goes up
\* by one exactly when the page has no matching same-origin link, and
\* urls_discovered goes up by the number of distinct matching links; no link
\* of another origin is ever checked or requested.
CE_C13 ==
    [][/\ \A i \in DOMAIN ev' :
            (pc = "listing" /\ ev'[i].op = "text")
               => LET n == Cardinality(MatchingLinks(Cfg.name, Cfg.listing_url, ev'[i].res))
                  IN  /\ diag'.listing_changed
                            = diag.listing_changed + (IF n = 0 THEN 1 ELSE 0)
                      /\ diag'.urls_discovered = diag.urls_discovered + n
       /\ \A i \in DOMAIN ev' :
            ev'[i].op \in {"robots_read", "can_fetch", "wait", "get", "text"}
               => ev'[i].url.netloc # OTHER_HOST]_vars

\* ---- C14 ---------------------------------------------------------------
\* The extraction of parser.py finds neither an excerpt nor body text in html.
NoContent(html, url) ==
    LET parsed == extract_article_metadata(html, url)
    IN  parsed.excerpt = "" /\ parsed.text = ""

\* C14: whenever an article page was fetched and the extraction gave neither
\* an excerpt nor body text, paywall_or_no_content goes up by one.
CE_C14 ==
    [][\A i \in DOMAIN ev' :
         (/\ pc \in {"rss_loop", "listing_loop"}
          /\ ev'[i].op = "text"
          /\ NoContent(ev'[i].res, ev'[i].url))
            => diag'.paywall_or_no_content = diag.paywall_or_no_content + 1]_vars

\* ---- C15 ---------------------------------------------------------------
\* The segments of a path: its tokens but the separators.
Segments(p) == SelectSeq(p, LAMBDA x : x # "/")

\* Two URL texts differ in nothing but the letter case of the host, repeated
\* separators in the path, a trailing separator, the query and the fragment.
SameButSpelling(t1, t2) ==
    LET u == UrlParse(t1)
        v == UrlParse(t2)
    IN  /\ u.scheme = v.scheme
        /\ Lower(u.netloc) = Lower(v.netloc)
        /\ Segments(u.path) = Segments(v.path)

NextCandidate ==
    IF pc = "rss_loop"
      THEN LET entry == Head(queue)
           IN  Article(Cfg.name, IF entry.title # "" THEN entry.title ELSE "Untitled",
                       entry.link, parse_date_to_iso(entry.published),
                       safe_excerpt(entry.summary))
      ELSE Article(Cfg.name, "Untitled", Head(queue), NoDate, "")

\* The step handed a candidate to _fetch_article_page.
Enriching == pc \in {"rss_loop", "listing_loop"} /\ pc' \in {pc, "raised"}

\* C16: enrichment never puts an empty value where the candidate had one
\* (url, title, date, excerpt); when it fails, on a robots refusal or a failed
\* fetch of the page, the candidate comes back with every field as it was,
\* and in either case the candidate goes on to the keep decision.
CE_C16 ==
    [][(Enriching /\ Has(ev', "can_fetch"))
         => /\ \E i \in DOMAIN ev' : ev'[i].op = "fetch_article_page"
            /\ Cardinality(Decisions(ev')) = 1
            /\ \A i \in DOMAIN ev' :
                  ev'[i].op = "fetch_article_page"
                    => LET c == NextCandidate
                           a == ev'[i].res
                       IN  /\ c.url # NoUrl => a.url # NoUrl
                           /\ c.title_en # "" => a.title_en # ""
                           /\ c.date # NoDate => a.date # NoDate
                           /\ c.excerpt_en # "" => a.excerpt_en # ""
                           /\ ~Has(ev', "text") => a = c]_vars

\* ---- C17 ---------------------------------------------------------------
\* The canonical keys of the articles the primary strategy collected.
PrimaryKeys == {canonicalize_url(collected[i].url) : i \in 1..from_primary}

\* C17: in the secondary strategy, a candidate whose canonical key is that of
\* an article the primary strategy collected is passed over: no robots check,
\* no fetch of its page, no increment of urls_attempted, nothing appended.
CE_C17 ==
    [][(/\ stage = "secondary"
        /\ pc \in {"rss_loop", "listing_loop"}
        /\ queue # <<>>
        /\ queue' = Tail(queue)
        /\ canonicalize_url(NextCandidate.url) \in PrimaryKeys)
         => /\ ~Has(ev', "can_fetch")
            /\ ~Has(ev', "get")
            /\ ~Has(ev', "cache_read")
            /\ diag'.urls_attempted = diag.urls_attempted
            /\ output' = output]_vars

\* ---- C18 ---------------------------------------------------------------
\* The order of the counters of a diagnostics record.
Ordered(d) ==
    /\ d.articles_fetched <= d.urls_attempted
    /\ d.urls_attempted <= d.urls_discovered

====
